---- MODULE Spec2Model ----
(***************************************************************************)
(* Alastizen Universal Time (AUT) live clock: the solar ephemeris, the     *)
(* sun window solver, the Equilux fallback and computeAUT of               *)
(* src/src/index.tsx, driven by the clock component's state (now, coords), *)
(* together with the ray window catalog and rayIndexForAUT (RaySpec) and   *)
(* computeAUT called on non-finite coordinates (CoordSpec), the comet map  *)
(* time store of src/src/comet/time.ts with its render loop (TimeSpec,     *)
(* FairTimeSpec) and the reverse geocoding hook useReverseGeocode          *)
(* (PlaceSpec).                                                            *)
(*                                                                         *)
(* Numbers.  JavaScript numbers are held in fixed point:                   *)
(*   - dimensionless values and radians in units of 1/Scale (1e-6);        *)
(*   - degrees (latitude, longitude, declination) in units of 1/Scale;     *)
(*   - minutes (sunriseUTC, sunsetUTC, noonUTC, EoT, tUTC, segment         *)
(*     lengths) in units of 1/UnitsPerMin minute, i.e. 1/6 millisecond,    *)
(*     so that a Date (an integer number of milliseconds) is a multiple    *)
(*     of UnitsPerMs and the truncation done by new Date(x) is visible;    *)
(*   - autHours and progress in units of 1/Scale.                          *)
(* A Date is the record [day, ms]: the UTC calendar day counted from       *)
(* 1 January of a 365-day year, and the milliseconds since that day's      *)
(* 00:00 UTC.                                                              *)
(***************************************************************************)
EXTENDS Integers, Naturals, Sequences, FiniteSets, TLC

Scale == 1000 * 1000

MsPerMin == 60000
UnitsPerMin == 6 * MsPerMin
MinPerDay == 1440
MsPerDay == MinPerDay * MsPerMin
UnitsPerDay == MinPerDay * UnitsPerMin

----------------------------------------------------------------------------
(* Fixed-point arithmetic standing for JavaScript's double arithmetic.     *)

Abs(a) == IF a < 0 THEN -a ELSE a

Sgn(a) == IF a < 0 THEN -1 ELSE 1

Min2(a, b) == IF a < b THEN a ELSE b

Max2(a, b) == IF a > b THEN a ELSE b

\* a * b / Scale for nonnegative a, b, without leaving 32 bits
MulPos(a, b) ==
    LET ah == a \div 1000
        al == a % 1000
        bh == b \div 1000
        bl == b % 1000
    IN  ah * bh + (ah * bl + al * bh) \div 1000 + (al * bl) \div Scale

\* a * b on 1/Scale values (rounded toward zero)
Mul(a, b) == Sgn(a) * Sgn(b) * MulPos(Abs(a), Abs(b))

\* binary long division: floor(r * 2^k / d) for 0 <= r < d
RECURSIVE FracBits(_, _, _, _)
FracBits(r, d, k, acc) ==
    IF k = 0 THEN acc
    ELSE LET r2 == 2 * r
         IN  IF r2 >= d THEN FracBits(r2 - d, d, k - 1, 2 * acc + 1)
                        ELSE FracBits(r2, d, k - 1, 2 * acc)

\* floor(a * Scale / d) for d > 0 (any sign of a)
DivPos(a, d) ==
    LET q == a \div d
        r == a % d
        f == FracBits(r, d, 20, 0)    \* floor(r * 2^20 / d)
    IN  q * Scale + (f \div 16384) * 15625 + ((f % 16384) * 15625) \div 16384

\* a / d on 1/Scale values, d # 0
Div(a, d) == IF d > 0 THEN DivPos(a, d) ELSE DivPos(-a, -d)

\* bisection for the least s with s * s >= v
RECURSIVE SqrtIter(_, _, _)
SqrtIter(v, lo, hi) ==
    IF hi - lo <= 1 THEN hi
    ELSE LET mid == (lo + hi) \div 2
         IN  IF MulPos(mid, mid) >= v THEN SqrtIter(v, lo, mid)
                                      ELSE SqrtIter(v, mid, hi)

\* Math.sqrt on 1/Scale values, 0 <= v <= 4
Sqrt(v) == IF v = 0 THEN 0 ELSE SqrtIter(v, 0, 2 * Scale)

----------------------------------------------------------------------------
(* Math.sin, Math.cos, Math.asin, Math.acos on 1/Scale radians.            *)

Pi == 3141593
TwoPi == 2 * Pi
HalfPi == Pi \div 2

\* Taylor series of sin about 0: term k is -term(k-1) * x^2 / ((2k)(2k+1))
RECURSIVE SinTerms(_, _, _, _)
SinTerms(term, x2, k, acc) ==
    IF k > 7 \/ term = 0 THEN acc
    ELSE LET next == (0 - Mul(term, x2)) \div ((2 * k) * (2 * k + 1))
         IN  SinTerms(next, x2, k + 1, acc + next)

SinSeries(x) == SinTerms(x, Mul(x, x), 1, x)

Sin(x) ==
    LET r == x % TwoPi                      \* [0, 2 pi)
    IN  IF r <= HalfPi THEN SinSeries(r)
        ELSE IF r <= Pi + HalfPi THEN SinSeries(Pi - r)
        ELSE SinSeries(r - TwoPi)

Cos(x) == Sin(x + HalfPi)

\* Taylor series of asin about 0: term k is term(k-1) * v^2 * (2k-1)^2 / ((2k)(2k+1))
RECURSIVE AsinTerms(_, _, _, _)
AsinTerms(term, v2, k, acc) ==
    IF k > 24 \/ term = 0 THEN acc
    ELSE LET next == (Mul(term, v2) * ((2 * k - 1) * (2 * k - 1))) \div ((2 * k) * (2 * k + 1))
         IN  AsinTerms(next, v2, k + 1, acc + next)

AsinSeries(v) == AsinTerms(v, Mul(v, v), 1, v)

\* Math.asin for -1 <= v <= 1
Asin(v) ==
    IF Abs(v) <= 707107 THEN AsinSeries(v)
    ELSE Sgn(v) * (HalfPi - 2 * AsinSeries(Sqrt((Scale - Abs(v)) \div 2)))

\* Math.acos for -1 <= v <= 1
Acos(v) == HalfPi - Asin(v)

----------------------------------------------------------------------------
(* Math helpers and calendar (index.tsx, "Math helpers").                  *)

\* x * DEG, DEG = Math.PI / 180: degrees (1/Scale) to radians (1/Scale)
DEG(x) == Sgn(x) * (MulPos(Abs(x), Pi) \div 180)

\* x * RAD, RAD = 180 / Math.PI: radians (1/Scale) to degrees (1/Scale)
RAD(x) == Mul(x, 57295780)

\* a number of minutes held in 1/Scale minutes, in time units
ToUnits(m) == Sgn(m) * ((Abs(m) \div 25) * 9 + ((Abs(m) % 25) * 9) \div 25)

\* a whole number of minutes in time units
Minutes(m) == m * UnitsPerMin

\* UTCMidnight that drops the day offset: 00:00 UTC of d's own day
UTCMidnight_SameDay(d, k) == [day |-> d.day, ms |-> 0]

\* new Date(Date.UTC(y, m, d + k)): 00:00 UTC of the day k days after d's
UTCMidnight(d, k) == [day |-> d.day + k, ms |-> 0]

\* Date.getTime() differences: milliseconds from Date a to Date b
MsBetween(a, b) == (b.day - a.day) * MsPerDay + (b.ms - a.ms)

\* Jan 1 -> 1; the calendar of the model has 365-day years
dayOfYear(d) == (d.day % 365) + 1

\* NOAA fractional year gamma, declination (1/Scale degrees) and equation
\* of time (time units)
solarParamsNOAA(n) ==
    LET gamma == Mul(TwoPi, DivPos(n - 1, 365))
        declRad == Asin(6918 - Mul(399912, Cos(gamma)) + Mul(70257, Sin(gamma))
                        - Mul(6758, Cos(2 * gamma)) + Mul(907, Sin(2 * gamma))
                        - Mul(2697, Cos(3 * gamma)) + Mul(1480, Sin(3 * gamma)))
        series == 75 + Mul(1868, Cos(gamma)) - Mul(32077, Sin(gamma))
                     - Mul(14615, Cos(2 * gamma)) - Mul(40849, Sin(2 * gamma))
    IN  [declDeg |-> RAD(declRad),
         EoT |-> ToUnits(Mul(229180000, series))]

\* solarNoonUTCMinutes without the equation of time (mean solar noon)
solarNoonUTCMinutes_NoEoT(longitudeDeg, EoT) ==
    Minutes(720) - ToUnits(4 * longitudeDeg)

\* minutes from 00:00 UTC
solarNoonUTCMinutes(longitudeDeg, EoT) ==
    Minutes(720) - ToUnits(4 * longitudeDeg) - EoT

\* HourAngleCos without the upper-limb and refraction correction (alpha = 0)
HourAngleCos_NoRefraction(declDeg, latDeg) ==
    LET phi == DEG(latDeg)
        decl == DEG(declDeg)
    IN  Div(0 - Mul(Sin(phi), Sin(decl)), Mul(Cos(phi), Cos(decl)))

\* the hour-angle cosine x of sunriseSunsetUTCMinutes (1/Scale)
HourAngleCos(declDeg, latDeg) ==
    LET alpha == 833000
        phi == DEG(latDeg)
        decl == DEG(declDeg)
    IN  Div(Sin(DEG(0 - alpha)) - Mul(Sin(phi), Sin(decl)),
            Mul(Cos(phi), Cos(decl)))

\* SunWindow that clamps x into [-1, 1] before it classifies
SunWindow_ClampedFirst(x, noonUTC, EoT, declDeg) ==
    LET xc == Min2(Scale, Max2(0 - Scale, x))
        h0 == RAD(Acos(xc))
    IN  IF xc > Scale
        THEN [mode |-> "polar_night", noonUTC |-> noonUTC, EoT |-> EoT,
              declDeg |-> declDeg]
        ELSE IF xc < 0 - Scale
        THEN [mode |-> "polar_day", noonUTC |-> noonUTC, EoT |-> EoT,
              declDeg |-> declDeg]
        ELSE [mode |-> "normal",
              sunriseUTC |-> noonUTC - ToUnits(4 * h0),
              sunsetUTC |-> noonUTC + ToUnits(4 * h0),
              noonUTC |-> noonUTC, EoT |-> EoT, declDeg |-> declDeg]

\* the classification on the hour-angle cosine x and the window it gives
SunWindow(x, noonUTC, EoT, declDeg) ==
    LET h0 == RAD(Acos(Min2(Scale, Max2(0 - Scale, x))))
    IN  IF x > Scale
        THEN [mode |-> "polar_night", noonUTC |-> noonUTC, EoT |-> EoT,
              declDeg |-> declDeg]
        ELSE IF x < 0 - Scale
        THEN [mode |-> "polar_day", noonUTC |-> noonUTC, EoT |-> EoT,
              declDeg |-> declDeg]
        ELSE [mode |-> "normal",
              sunriseUTC |-> noonUTC - ToUnits(4 * h0),
              sunsetUTC |-> noonUTC + ToUnits(4 * h0),
              noonUTC |-> noonUTC, EoT |-> EoT, declDeg |-> declDeg]

\* sunrise/sunset/noon plus a mode flag for polar conditions
sunriseSunsetUTCMinutes(dateUTC, latDeg, lonDeg) ==
    LET n == dayOfYear(dateUTC)
        sp == solarParamsNOAA(n)
        noonUTC == solarNoonUTCMinutes(lonDeg, sp.EoT)
        x == HourAngleCos(sp.declDeg, latDeg)
    IN  SunWindow(x, noonUTC, sp.EoT, sp.declDeg)

\* minutes since today's UTC 00:00
minutesLocalToUTCMinutes(d) == d.ms * (UnitsPerMin \div MsPerMin)

\* <<HH, MM, SS>> of a number of clock hours (1/Scale), wrapped into a day
formatClock(hhFloat) ==
    LET totalSec == ((hhFloat % (24 * Scale)) * 9) \div 2500
    IN  <<totalSec \div 3600, (totalSec % 3600) \div 60, totalSec % 60>>

\* new Date(baseUTC + utcMinutes * 60000): the time value is cut to whole
\* milliseconds
utcMinutesToLocalDate(utcMinutes, baseDateUTC) ==
    LET ms == utcMinutes \div (UnitsPerMin \div MsPerMin)
    IN  [day |-> baseDateUTC.day + (ms \div MsPerDay), ms |-> ms % MsPerDay]

\* apparentSolarMinutesUTC without the equation of time (mean solar time)
apparentSolarMinutesUTC_NoEoT(tUTCmin, lonDeg, EoT) ==
    (tUTCmin + ToUnits(4 * lonDeg)) % UnitsPerDay

\* Apparent Solar Time (AST) minutes from midnight, normalized 0..1440
apparentSolarMinutesUTC(tUTCmin, lonDeg, EoT) ==
    (tUTCmin + ToUnits(4 * lonDeg) + EoT) % UnitsPerDay

\* computeAUTEquilux reporting the end of the day half (18:00 AST) as the
\* length of the night
computeAUTEquilux_NightLenDayEnd(nowLocal, lonDeg, EoT, noonUTC) ==
    LET tUTC == minutesLocalToUTCMinutes(nowLocal)
        astMin == apparentSolarMinutesUTC(tUTC, lonDeg, EoT)
        dayStart == Minutes(360)
        dayEnd == Minutes(1080)
        isDay == astMin >= dayStart /\ astMin < dayEnd
        delta == IF astMin >= dayEnd THEN astMin - dayEnd
                 ELSE astMin + (Minutes(1440) - dayEnd)
        ratio == IF isDay THEN Div(astMin - dayStart, Minutes(720))
                 ELSE Div(delta, Minutes(720))
        autHours == IF isDay THEN 12 * ratio ELSE 12 * Scale + 12 * ratio
        todayUTC == UTCMidnight(nowLocal, 0)
        tomorrowUTC == UTCMidnight(nowLocal, 1)
        sunriseVirtualUTC == noonUTC - Minutes(360)
        sunsetVirtualUTC == noonUTC + Minutes(360)
    IN  [autHours |-> autHours,
         autClock |-> formatClock(autHours),
         sunriseLocal |-> utcMinutesToLocalDate(sunriseVirtualUTC, todayUTC),
         sunsetLocal |-> utcMinutesToLocalDate(sunsetVirtualUTC, todayUTC),
         nextSunriseLocal |-> utcMinutesToLocalDate(sunriseVirtualUTC, tomorrowUTC),
         segmentLabel |-> IF isDay THEN "Daylight (Lux, Equilux)"
                          ELSE "Night (Umbra, Equilux)",
         progress |-> ratio,
         segLenMin |-> Minutes(720),
         dayLenMin |-> Minutes(720),
         nightLenMin |-> dayEnd,
         mode |-> "equilux"]

\* Equilux fallback: two equal halves around solar noon using AST
computeAUTEquilux(nowLocal, lonDeg, EoT, noonUTC) ==
    LET tUTC == minutesLocalToUTCMinutes(nowLocal)
        astMin == apparentSolarMinutesUTC(tUTC, lonDeg, EoT)
        dayStart == Minutes(360)
        dayEnd == Minutes(1080)
        isDay == astMin >= dayStart /\ astMin < dayEnd
        delta == IF astMin >= dayEnd THEN astMin - dayEnd
                 ELSE astMin + (Minutes(1440) - dayEnd)
        ratio == IF isDay THEN Div(astMin - dayStart, Minutes(720))
                 ELSE Div(delta, Minutes(720))
        autHours == IF isDay THEN 12 * ratio ELSE 12 * Scale + 12 * ratio
        todayUTC == UTCMidnight(nowLocal, 0)
        tomorrowUTC == UTCMidnight(nowLocal, 1)
        sunriseVirtualUTC == noonUTC - Minutes(360)
        sunsetVirtualUTC == noonUTC + Minutes(360)
    IN  [autHours |-> autHours,
         autClock |-> formatClock(autHours),
         sunriseLocal |-> utcMinutesToLocalDate(sunriseVirtualUTC, todayUTC),
         sunsetLocal |-> utcMinutesToLocalDate(sunsetVirtualUTC, todayUTC),
         nextSunriseLocal |-> utcMinutesToLocalDate(sunriseVirtualUTC, tomorrowUTC),
         segmentLabel |-> IF isDay THEN "Daylight (Lux, Equilux)"
                          ELSE "Night (Umbra, Equilux)",
         progress |-> ratio,
         segLenMin |-> Minutes(720),
         dayLenMin |-> Minutes(720),
         nightLenMin |-> Minutes(720),
         mode |-> "equilux"]

\* spanAfter without the lift of the next day's minutes by one day
spanAfter_NoDayLift(endMin, startMin) == endMin - startMin

\* next-day minus today
spanAfter(endMin, startMin) == endMin + Minutes(1440) - startMin

\* spanBefore without the lift of today's minutes by one day
spanBefore_NoDayLift(endMin, startMin) == endMin - startMin

\* today minus yesterday
spanBefore(endMin, startMin) == endMin - startMin + Minutes(1440)

\* the band of the normal flow an instant falls in
Band(tUTC, sunriseToday, sunsetToday) ==
    IF tUTC >= sunriseToday /\ tUTC < sunsetToday THEN "daylight"
    ELSE IF tUTC >= sunsetToday THEN "postSunset"
    ELSE "preSunrise"

\* BandAutHours with the night offset of 12 hours dropped
BandAutHours_NoNightOffset(band, ratio) == 12 * ratio

\* autHours of a band: 12 * ratio by day, 12 + 12 * ratio by night
BandAutHours(band, ratio) ==
    IF band = "daylight" THEN 12 * ratio ELSE 12 * Scale + 12 * ratio

\* segLenMin of a band: dayLen by day, nightLen (spanAfter or spanBefore)
\* by night
SegLenMin(band, sunriseToday, sunsetToday, sunsetYest, sunriseTom) ==
    CASE band = "daylight" -> sunsetToday - sunriseToday
      [] band = "postSunset" -> spanAfter(sunriseTom, sunsetToday)
      [] band = "preSunrise" -> spanBefore(sunriseToday, sunsetYest)

\* BandLabel that leaves segmentLabel at its initial "" before sunrise
BandLabel_UnsetBeforeSunrise(band) ==
    IF band = "daylight" THEN "Daylight (Lux)"
    ELSE IF band = "postSunset" THEN "Night (Umbra)"
    ELSE ""

\* segmentLabel of a band of the normal flow
BandLabel(band) ==
    IF band = "daylight" THEN "Daylight (Lux)"
    ELSE IF band = "postSunset" THEN "Night (Umbra)"
    ELSE "Night (Umbra)"

\* the normal sunrise/sunset flow of computeAUT, the three windows being normal
computeAUTNormal(nowLocal, today, yesterday, tomorrow) ==
    LET todayUTC == UTCMidnight(nowLocal, 0)
        yesterdayUTC == UTCMidnight(nowLocal, -1)
        tomorrowUTC == UTCMidnight(nowLocal, 1)
        tUTC == minutesLocalToUTCMinutes(nowLocal)
        sunriseToday == today.sunriseUTC
        sunsetToday == today.sunsetUTC
        sunsetYest == yesterday.sunsetUTC
        sunriseTom == tomorrow.sunriseUTC
        band == Band(tUTC, sunriseToday, sunsetToday)
        dayLen == sunsetToday - sunriseToday
        nightLenAfter == spanAfter(sunriseTom, sunsetToday)
        tCont == tUTC + Minutes(1440)
        nightLenBefore == spanBefore(sunriseToday, sunsetYest)
        ratio == CASE band = "daylight" -> Div(tUTC - sunriseToday, dayLen)
                   [] band = "postSunset" -> Div(tUTC - sunsetToday, nightLenAfter)
                   [] band = "preSunrise" ->
                        Div(tCont - (sunsetYest + Minutes(1440)), nightLenBefore)
        autHours == BandAutHours(band, ratio)
    IN  [autHours |-> autHours,
         autClock |-> formatClock(autHours),
         sunriseLocal |-> utcMinutesToLocalDate(sunriseToday, todayUTC),
         sunsetLocal |-> IF band = "preSunrise"
                         THEN utcMinutesToLocalDate(sunsetYest, yesterdayUTC)
                         ELSE utcMinutesToLocalDate(sunsetToday, todayUTC),
         nextSunriseLocal |-> IF band = "preSunrise"
                              THEN utcMinutesToLocalDate(sunriseToday, todayUTC)
                              ELSE utcMinutesToLocalDate(sunriseTom, tomorrowUTC),
         segmentLabel |-> BandLabel(band),
         progress |-> ratio,
         segLenMin |-> SegLenMin(band, sunriseToday, sunsetToday, sunsetYest,
                                 sunriseTom),
         dayLenMin |-> Max2(0, sunsetToday - sunriseToday),
         nightLenMin |-> Max2(0, spanAfter(sunriseTom, sunsetToday)),
         mode |-> "normal",
         noonUTC |-> today.noonUTC]

\* computeAUT that solves today's window only and takes it for yesterday's
\* and tomorrow's
computeAUT_TodayOnly(nowLocal, latDeg, lonDeg) ==
    LET today == sunriseSunsetUTCMinutes(UTCMidnight(nowLocal, 0), latDeg, lonDeg)
    IN  IF today.mode # "normal"
        THEN computeAUTEquilux(nowLocal, lonDeg, today.EoT, today.noonUTC)
        ELSE computeAUTNormal(nowLocal, today, today, today)

computeAUT(nowLocal, latDeg, lonDeg) ==
    LET todayUTC == UTCMidnight(nowLocal, 0)
        yesterdayUTC == UTCMidnight(nowLocal, -1)
        tomorrowUTC == UTCMidnight(nowLocal, 1)
        today == sunriseSunsetUTCMinutes(todayUTC, latDeg, lonDeg)
        yesterday == sunriseSunsetUTCMinutes(yesterdayUTC, latDeg, lonDeg)
        tomorrow == sunriseSunsetUTCMinutes(tomorrowUTC, latDeg, lonDeg)
    IN  IF today.mode = "polar_day" \/ today.mode = "polar_night"
        THEN computeAUTEquilux(nowLocal, lonDeg, today.EoT, today.noonUTC)
        ELSE IF today.mode # "normal"
        THEN computeAUTEquilux(nowLocal, lonDeg, today.EoT, today.noonUTC)
        ELSE IF yesterday.mode # "normal" \/ tomorrow.mode # "normal"
        THEN computeAUTEquilux(nowLocal, lonDeg, today.EoT, today.noonUTC)
        ELSE computeAUTNormal(nowLocal, today, yesterday, tomorrow)

----------------------------------------------------------------------------
(* computeAUT on coordinates that may be non-finite.                       *)
(*                                                                         *)
(* The definitions above take finite numbers.  Here a number is the record *)
(* [k, v]: k = "fin" with the fixed-point value v, or k = "nan", "inf",    *)
(* "ninf" for NaN, Infinity and -Infinity, and the operators follow the    *)
(* IEEE 754 rules JavaScript applies.  computeAUTX is the same code as     *)
(* computeAUT, written with these operators.                               *)

Fin(v) == [k |-> "fin", v |-> v]

XNaN == [k |-> "nan", v |-> 0]

XInf == [k |-> "inf", v |-> 0]

XNegInf == [k |-> "ninf", v |-> 0]

\* -a
XNeg(a) ==
    CASE a.k = "fin" -> Fin(0 - a.v)
      [] a.k = "inf" -> XNegInf
      [] a.k = "ninf" -> XInf
      [] OTHER -> XNaN

\* a + b: NaN if either is NaN or for Infinity + -Infinity
XAdd(a, b) ==
    IF a.k = "nan" \/ b.k = "nan" THEN XNaN
    ELSE IF a.k = "fin" /\ b.k = "fin" THEN Fin(a.v + b.v)
    ELSE IF a.k = "fin" THEN b
    ELSE IF b.k = "fin" THEN a
    ELSE IF a.k = b.k THEN a
    ELSE XNaN

\* a - b
XSub(a, b) == XAdd(a, XNeg(b))

\* n * a for a whole n > 0
XTimes(n, a) == IF a.k = "fin" THEN Fin(n * a.v) ELSE a

\* -1, 0 or 1 as a is below, at or above zero (NaN excluded)
XSign(a) ==
    CASE a.k = "inf" -> 1
      [] a.k = "ninf" -> -1
      [] OTHER -> IF a.v > 0 THEN 1 ELSE IF a.v < 0 THEN -1 ELSE 0

\* Infinity with the sign sg, NaN for sg = 0
XInfOfSign(sg) == IF sg > 0 THEN XInf ELSE IF sg < 0 THEN XNegInf ELSE XNaN

\* a * b of two values held in 1/Scale
XMul(a, b) ==
    IF a.k = "nan" \/ b.k = "nan" THEN XNaN
    ELSE IF a.k = "fin" /\ b.k = "fin" THEN Fin(Mul(a.v, b.v))
    ELSE XInfOfSign(XSign(a) * XSign(b))

\* a / b, the quotient held in 1/Scale
XDiv(a, b) ==
    IF a.k = "nan" \/ b.k = "nan" THEN XNaN
    ELSE IF a.k = "fin" /\ b.k = "fin"
    THEN IF b.v = 0 THEN XInfOfSign(XSign(a)) ELSE Fin(Div(a.v, b.v))
    ELSE IF a.k # "fin" /\ b.k # "fin" THEN XNaN
    ELSE IF b.k # "fin" THEN Fin(0)
    ELSE XInfOfSign(XSign(a) * (IF b.v < 0 THEN -1 ELSE 1))

\* a < b: false when either is NaN
XLt(a, b) ==
    /\ a.k # "nan"
    /\ b.k # "nan"
    /\ \/ (a.k = "ninf" /\ b.k # "ninf")
       \/ (b.k = "inf" /\ a.k # "inf")
       \/ (a.k = "fin" /\ b.k = "fin" /\ a.v < b.v)

\* a >= b: false when either is NaN
XGe(a, b) == a.k # "nan" /\ b.k # "nan" /\ ~XLt(a, b)

\* a > b
XGt(a, b) == XLt(b, a)

\* Math.max(a, b): NaN when either is NaN
XMax(a, b) ==
    IF a.k = "nan" \/ b.k = "nan" THEN XNaN ELSE IF XGe(a, b) THEN a ELSE b

\* Math.min(a, b): NaN when either is NaN
XMin(a, b) ==
    IF a.k = "nan" \/ b.k = "nan" THEN XNaN ELSE IF XGe(a, b) THEN b ELSE a

\* Math.sin, Math.cos, Math.acos: NaN off the finite numbers
XSin(a) == IF a.k = "fin" THEN Fin(Sin(a.v)) ELSE XNaN

XCos(a) == IF a.k = "fin" THEN Fin(Cos(a.v)) ELSE XNaN

XAcos(a) == IF a.k = "fin" THEN Fin(Acos(a.v)) ELSE XNaN

\* a * DEG, a * RAD and the change of unit of minutes
XDEG(a) == IF a.k = "fin" THEN Fin(DEG(a.v)) ELSE a

XRAD(a) == IF a.k = "fin" THEN Fin(RAD(a.v)) ELSE a

XToUnits(a) == IF a.k = "fin" THEN Fin(ToUnits(a.v)) ELSE a

\* ((a % 1440) + 1440) % 1440: NaN for Infinity % 1440
XWrapDay(a) == IF a.k = "fin" THEN Fin(a.v % UnitsPerDay) ELSE XNaN

\* new Date(NaN): an Invalid Date, marked by ms = -1
InvalidDate == [day |-> 0, ms |-> 0 - 1]

utcMinutesToLocalDateX(utcMinutes, baseDateUTC) ==
    IF utcMinutes.k = "fin" THEN utcMinutesToLocalDate(utcMinutes.v, baseDateUTC)
    ELSE InvalidDate

\* formatClock: "NaN:NaN:NaN" is held as <<-1, -1, -1>>
formatClockX(hhFloat) ==
    IF hhFloat.k = "fin" THEN formatClock(hhFloat.v) ELSE <<0 - 1, 0 - 1, 0 - 1>>

solarNoonUTCMinutesX(longitudeDeg, EoT) ==
    XSub(XSub(Fin(Minutes(720)), XToUnits(XTimes(4, longitudeDeg))), Fin(EoT))

sunriseSunsetUTCMinutesX(dateUTC, latDeg, lonDeg) ==
    LET n == dayOfYear(dateUTC)
        sp == solarParamsNOAA(n)
        noonUTC == solarNoonUTCMinutesX(lonDeg, sp.EoT)
        alpha == 833000
        phi == XDEG(latDeg)
        decl == DEG(sp.declDeg)
        x == XDiv(XSub(Fin(Sin(DEG(0 - alpha))), XMul(XSin(phi), Fin(Sin(decl)))),
                  XMul(XCos(phi), Fin(Cos(decl))))
        h0 == XRAD(XAcos(XMin(Fin(Scale), XMax(Fin(0 - Scale), x))))
    IN  IF XGt(x, Fin(Scale))
        THEN [mode |-> "polar_night", noonUTC |-> noonUTC, EoT |-> sp.EoT,
              declDeg |-> sp.declDeg]
        ELSE IF XLt(x, Fin(0 - Scale))
        THEN [mode |-> "polar_day", noonUTC |-> noonUTC, EoT |-> sp.EoT,
              declDeg |-> sp.declDeg]
        ELSE [mode |-> "normal",
              sunriseUTC |-> XSub(noonUTC, XToUnits(XTimes(4, h0))),
              sunsetUTC |-> XAdd(noonUTC, XToUnits(XTimes(4, h0))),
              noonUTC |-> noonUTC, EoT |-> sp.EoT, declDeg |-> sp.declDeg]

computeAUTEquiluxX(nowLocal, lonDeg, EoT, noonUTC) ==
    LET tUTC == minutesLocalToUTCMinutes(nowLocal)
        astMin == XWrapDay(XAdd(XAdd(Fin(tUTC), XToUnits(XTimes(4, lonDeg))),
                                Fin(EoT)))
        dayStart == Fin(Minutes(360))
        dayEnd == Fin(Minutes(1080))
        isDay == XGe(astMin, dayStart) /\ XLt(astMin, dayEnd)
        delta == IF XGe(astMin, dayEnd) THEN XSub(astMin, dayEnd)
                 ELSE XAdd(astMin, Fin(Minutes(1440) - Minutes(1080)))
        ratio == IF isDay THEN XDiv(XSub(astMin, dayStart), Fin(Minutes(720)))
                 ELSE XDiv(delta, Fin(Minutes(720)))
        autHours == IF isDay THEN XTimes(12, ratio)
                    ELSE XAdd(Fin(12 * Scale), XTimes(12, ratio))
        todayUTC == UTCMidnight(nowLocal, 0)
        tomorrowUTC == UTCMidnight(nowLocal, 1)
        sunriseVirtualUTC == XSub(noonUTC, Fin(Minutes(360)))
        sunsetVirtualUTC == XAdd(noonUTC, Fin(Minutes(360)))
    IN  [autHours |-> autHours,
         autClock |-> formatClockX(autHours),
         sunriseLocal |-> utcMinutesToLocalDateX(sunriseVirtualUTC, todayUTC),
         sunsetLocal |-> utcMinutesToLocalDateX(sunsetVirtualUTC, todayUTC),
         nextSunriseLocal |-> utcMinutesToLocalDateX(sunriseVirtualUTC, tomorrowUTC),
         segmentLabel |-> IF isDay THEN "Daylight (Lux, Equilux)"
                          ELSE "Night (Umbra, Equilux)",
         progress |-> ratio,
         segLenMin |-> Fin(Minutes(720)),
         dayLenMin |-> Fin(Minutes(720)),
         nightLenMin |-> Fin(Minutes(720)),
         mode |-> "equilux"]

computeAUTNormalX(nowLocal, today, yesterday, tomorrow) ==
    LET todayUTC == UTCMidnight(nowLocal, 0)
        yesterdayUTC == UTCMidnight(nowLocal, -1)
        tomorrowUTC == UTCMidnight(nowLocal, 1)
        tUTC == Fin(minutesLocalToUTCMinutes(nowLocal))
        day == Fin(Minutes(1440))
        sunriseToday == today.sunriseUTC
        sunsetToday == today.sunsetUTC
        sunsetYest == yesterday.sunsetUTC
        sunriseTom == tomorrow.sunriseUTC
        band == IF XGe(tUTC, sunriseToday) /\ XLt(tUTC, sunsetToday) THEN "daylight"
                ELSE IF XGe(tUTC, sunsetToday) THEN "postSunset"
                ELSE "preSunrise"
        dayLen == XSub(sunsetToday, sunriseToday)
        nightLenAfter == XSub(XAdd(sunriseTom, day), sunsetToday)
        tCont == XAdd(tUTC, day)
        nightLenBefore == XAdd(XSub(sunriseToday, sunsetYest), day)
        ratio == CASE band = "daylight" -> XDiv(XSub(tUTC, sunriseToday), dayLen)
                   [] band = "postSunset" -> XDiv(XSub(tUTC, sunsetToday), nightLenAfter)
                   [] band = "preSunrise" ->
                        XDiv(XSub(tCont, XAdd(sunsetYest, day)), nightLenBefore)
        autHours == IF band = "daylight" THEN XTimes(12, ratio)
                    ELSE XAdd(Fin(12 * Scale), XTimes(12, ratio))
    IN  [autHours |-> autHours,
         autClock |-> formatClockX(autHours),
         sunriseLocal |-> utcMinutesToLocalDateX(sunriseToday, todayUTC),
         sunsetLocal |-> IF band = "preSunrise"
                         THEN utcMinutesToLocalDateX(sunsetYest, yesterdayUTC)
                         ELSE utcMinutesToLocalDateX(sunsetToday, todayUTC),
         nextSunriseLocal |-> IF band = "preSunrise"
                              THEN utcMinutesToLocalDateX(sunriseToday, todayUTC)
                              ELSE utcMinutesToLocalDateX(sunriseTom, tomorrowUTC),
         segmentLabel |-> BandLabel(band),
         progress |-> ratio,
         segLenMin |-> CASE band = "daylight" -> dayLen
                         [] band = "postSunset" -> nightLenAfter
                         [] band = "preSunrise" -> nightLenBefore,
         dayLenMin |-> XMax(Fin(0), dayLen),
         nightLenMin |-> XMax(Fin(0), nightLenAfter),
         mode |-> "normal",
         noonUTC |-> today.noonUTC]

\* computeAUTX that puts the fallback position (35.25, -80.8) in the place
\* of a non-finite coordinate
computeAUTX_DefaultCoords(nowLocal, latDeg, lonDeg) ==
    LET lat == IF latDeg.k = "fin" /\ lonDeg.k = "fin" THEN latDeg ELSE Fin(35250000)
        lon == IF latDeg.k = "fin" /\ lonDeg.k = "fin" THEN lonDeg ELSE Fin(0 - 80800000)
        today == sunriseSunsetUTCMinutesX(UTCMidnight(nowLocal, 0), lat, lon)
        yesterday == sunriseSunsetUTCMinutesX(UTCMidnight(nowLocal, -1), lat, lon)
        tomorrow == sunriseSunsetUTCMinutesX(UTCMidnight(nowLocal, 1), lat, lon)
    IN  IF today.mode # "normal" \/ yesterday.mode # "normal"
           \/ tomorrow.mode # "normal"
        THEN computeAUTEquiluxX(nowLocal, lon, today.EoT, today.noonUTC)
        ELSE computeAUTNormalX(nowLocal, today, yesterday, tomorrow)

computeAUTX(nowLocal, latDeg, lonDeg) ==
    LET todayUTC == UTCMidnight(nowLocal, 0)
        yesterdayUTC == UTCMidnight(nowLocal, -1)
        tomorrowUTC == UTCMidnight(nowLocal, 1)
        today == sunriseSunsetUTCMinutesX(todayUTC, latDeg, lonDeg)
        yesterday == sunriseSunsetUTCMinutesX(yesterdayUTC, latDeg, lonDeg)
        tomorrow == sunriseSunsetUTCMinutesX(tomorrowUTC, latDeg, lonDeg)
    IN  IF today.mode = "polar_day" \/ today.mode = "polar_night"
        THEN computeAUTEquiluxX(nowLocal, lonDeg, today.EoT, today.noonUTC)
        ELSE IF today.mode # "normal"
        THEN computeAUTEquiluxX(nowLocal, lonDeg, today.EoT, today.noonUTC)
        ELSE IF yesterday.mode # "normal" \/ tomorrow.mode # "normal"
        THEN computeAUTEquiluxX(nowLocal, lonDeg, today.EoT, today.noonUTC)
        ELSE computeAUTNormalX(nowLocal, today, yesterday, tomorrow)

----------------------------------------------------------------------------
(* Ray windows (index.tsx, RAY_WINDOWS and rayIndexForAUT).                *)
(*                                                                         *)
(* The tolerance eps = 1e-9 hours is far below 1/Scale, so an hour value   *)
(* handed to rayIndexForAUT is held on two levels: the record              *)
(* [k, c, e] with k = "fin" stands for c / UnitsPerHour hours plus e       *)
(* quarters of eps, and k = "nan", "inf", "ninf" for the non-finite        *)
(* doubles.  The e part stays within a few eps, so values are ordered by c *)
(* first and by e second.  The double addition in the wrap rounds by a few *)
(* 1e-15 hours; that is below the e level, so an argument exactly eps      *)
(* below a window bound, where that rounding decides, is not represented   *)
(* among the arguments drawn (RayOffsets).                                 *)

UnitsPerHour == 2 * 10000

RayNum(c, e) == [k |-> "fin", c |-> c, e |-> e]

NaN == [k |-> "nan", c |-> 0, e |-> 0]

PosInf == [k |-> "inf", c |-> 0, e |-> 0]

NegInf == [k |-> "ninf", c |-> 0, e |-> 0]

\* a whole number of hours
Hours(n) == RayNum(n * UnitsPerHour, 0)

RayLt(a, b) == a.c < b.c \/ (a.c = b.c /\ a.e < b.e)

RayGe(a, b) == ~RayLt(a, b)

RayAdd(a, b) == RayNum(a.c + b.c, a.e + b.e)

RaySub(a, b) == RayNum(a.c - b.c, a.e - b.e)

\* a / n for a small whole n; exact on the arguments drawn (c and e even)
RayDiv(a, n) == RayNum(a.c \div n, a.e \div n)

\* JavaScript's x % 24: the remainder has the sign of the dividend
RayRem24(x) ==
    LET D == 24 * UnitsPerHour
        neg == RayLt(x, Hours(0))
        m == IF neg THEN RaySub(Hours(0), x) ELSE x
        r == IF m.c % D = 0 /\ m.e < 0 THEN RayNum(D, m.e)
             ELSE RayNum(m.c % D, m.e)
    IN  IF neg THEN RaySub(Hours(0), r) ELSE r

\* Wrap24 without the "+ 24" step: hRaw % 24 only
Wrap24_SingleRemainder(x) == RayRem24(x)

\* ((x % 24) + 24) % 24
Wrap24(x) == RayRem24(RayAdd(RayRem24(x), Hours(24)))

\* RAY_WINDOWS whose last window was dropped from the list
RAY_WINDOWS_LastDropped ==
    << [name |-> "Red", start |-> 0, end |-> 2],
       [name |-> "Orange", start |-> 2, end |-> 4],
       [name |-> "Yellow", start |-> 4, end |-> 6],
       [name |-> "Green", start |-> 6, end |-> 8],
       [name |-> "Teal", start |-> 8, end |-> 10],
       [name |-> "Blue", start |-> 10, end |-> 12],
       [name |-> "Indigo", start |-> 12, end |-> 14],
       [name |-> "Violet", start |-> 14, end |-> 16],
       [name |-> "Magenta", start |-> 16, end |-> 18],
       [name |-> "Omni", start |-> 18, end |-> 20],
       [name |-> "Crystalline-Carbon", start |-> 20, end |-> 22] >>

\* 12 windows across 24 AUT hours (2h each)
RAY_WINDOWS ==
    << [name |-> "Red", start |-> 0, end |-> 2],
       [name |-> "Orange", start |-> 2, end |-> 4],
       [name |-> "Yellow", start |-> 4, end |-> 6],
       [name |-> "Green", start |-> 6, end |-> 8],
       [name |-> "Teal", start |-> 8, end |-> 10],
       [name |-> "Blue", start |-> 10, end |-> 12],
       [name |-> "Indigo", start |-> 12, end |-> 14],
       [name |-> "Violet", start |-> 14, end |-> 16],
       [name |-> "Magenta", start |-> 16, end |-> 18],
       [name |-> "Omni", start |-> 18, end |-> 20],
       [name |-> "Crystalline-Carbon", start |-> 20, end |-> 22],
       [name |-> "Infinite of ALL", start |-> 22, end |-> 24] >>

\* const eps = 1e-9
eps == RayNum(0, 4)

\* WindowMatches with eps taken off the lower bound only
WindowMatches_EpsOnStartOnly(h, r) ==
    LET start == RaySub(Hours(r.start), eps)
        end == Hours(r.end)
    IN  RayGe(h, start) /\ RayLt(h, end)

\* WindowMatches with eps taken off the upper bound only
WindowMatches_EpsOnEndOnly(h, r) ==
    LET start == Hours(r.start)
        end == RaySub(Hours(r.end), eps)
    IN  RayGe(h, start) /\ RayLt(h, end)

\* the test of the scan: h >= start && h < end, eps taken off both bounds
WindowMatches(h, r) ==
    LET start == RaySub(Hours(r.start), eps)
        end == RaySub(Hours(r.end), eps)
    IN  RayGe(h, start) /\ RayLt(h, end)

\* the for loop from index i on: the first index that matches, -1 when the
\* loop runs to its end
RECURSIVE RayScan(_, _)
RayScan(h, i) ==
    IF i >= Len(RAY_WINDOWS) THEN -1
    ELSE IF WindowMatches(h, RAY_WINDOWS[i + 1]) THEN i
    ELSE RayScan(h, i + 1)

\* the wrapped hour the scan runs on (a non-finite argument counts as 0)
RayWrapped(hours) ==
    LET hRaw == IF hours.k = "fin" THEN hours ELSE Hours(0)
    IN  Wrap24(hRaw)

\* robust ray-index selection with modulo wrap & FP tolerance
rayIndexForAUT(hours) ==
    LET i == RayScan(RayWrapped(hours), 0)
    IN  IF i >= 0 THEN i ELSE 0 \* fallback

\* AUTClock: const autH = ((Number(data.autHours) % 24) + 24) % 24
autH(autHours) == IF autHours.k = "fin" THEN Wrap24(autHours) ELSE NaN

\* rayProgress without Math.min(1, Math.max(0, ...))
rayProgress_Unclamped(autHours) ==
    LET h == autH(autHours)
        activeRay == RAY_WINDOWS[rayIndexForAUT(h) + 1]
        rayRange == activeRay.end - activeRay.start
    IN  IF h.k # "fin" THEN NaN
        ELSE RayDiv(RaySub(h, Hours(activeRay.start)), rayRange)

\* AUTClock: progress within the active ray window,
\* Math.min(1, Math.max(0, (autH - activeRay.start) / rayRange)); the
\* fraction is held like an hour value, 0 as Hours(0) and 1 as Hours(1)
rayProgress(autHours) ==
    LET h == autH(autHours)
        activeRay == RAY_WINDOWS[rayIndexForAUT(h) + 1]
        rayRange == activeRay.end - activeRay.start
        frac == RayDiv(RaySub(h, Hours(activeRay.start)), rayRange)
    IN  IF h.k # "fin" THEN NaN
        ELSE IF RayLt(frac, Hours(0)) THEN Hours(0)
        ELSE IF RayLt(Hours(1), frac) THEN Hours(1)
        ELSE frac

----------------------------------------------------------------------------
(* The clock component AUTClock: its state and what changes it.            *)

VARIABLES now, coords, status, ticks, rayArg, rayRet, autArg,
          state, listeners, notified, calls,
          placeLabel, placeStatus, cacheRef, abortRef, requests, effectDeps,
          mounted, fetches

vars == <<now, coords, status, ticks, rayArg, rayRet, autArg,
          state, listeners, notified, calls,
          placeLabel, placeStatus, cacheRef, abortRef, requests, effectDeps,
          mounted, fetches>>

\* the component's own state
clockVars == <<now, coords, status, ticks>>

\* the argument of the latest call of rayIndexForAUT and what it returned
\* (-1 while no call was made)
rayVars == <<rayArg, rayRet>>

\* the arguments of the latest direct call of computeAUT (NoCall while none
\* was made)
autVars == <<autArg>>

\* the comet time store: its state object, the subscribed listeners, how
\* often the latest call notified each listener, and the number of calls
\* made from outside the render loop
timeVars == <<state, listeners, notified, calls>>

\* useReverseGeocode: its two state values, the label cache, the latest
\* AbortController, the fetches in flight, the dependencies its effect last
\* ran for, whether the component is mounted, and the fetches started
placeVars == <<placeLabel, placeStatus, cacheRef, abortRef, requests, effectDeps,
               mounted, fetches>>

\* what the component's own actions leave alone
callVars == <<rayVars, autVars, timeVars, placeVars>>

NoCall == [t |-> [day |-> 0, ms |-> 0], lat |-> Fin(0), lon |-> Fin(0)]

\* Charlotte NoDa fallback
fallback == [lat |-> 35250000, lon |-> -80800000]

\* positions the geolocation service or the postal code lookup may report
Places ==
    { fallback,
      [lat |-> 61200000, lon |-> -149900000],
      [lat |-> -33900000, lon |-> 151200000],
      [lat |-> 66600000, lon |-> 25000000],
      [lat |-> 69650000, lon |-> 18950000] }

GridMin == 90
MaxTicks == 2

\* UTC calendar days (counted from 1 January) the component is mounted on
InitDays == {79, 151, 171, 193, 354, 364}

\* minutes of the day the component is mounted at
InitMinutes == {k * GridMin : k \in 0..((MinPerDay - 1) \div GridMin)}

\* minutes between two interval callbacks that change what is displayed
TickMinutes == {1, GridMin - 1}

\* the Date d milliseconds after Date a
DatePlusMs(a, d) ==
    [day |-> a.day + ((a.ms + d) \div MsPerDay), ms |-> (a.ms + d) % MsPerDay]

\* useMemo(() => computeAUT(now, coords.lat, coords.lon), [now, coords])
data == computeAUT(now, coords.lat, coords.lon)

----------------------------------------------------------------------------
(* The comet time store (src/src/comet/time.ts).                           *)
(*                                                                         *)
(* state.t is held in minutes since the epoch and state.speed in steps of  *)
(* the speed slider (60000: one minute of comet time per millisecond of    *)
(* frame time), both as numbers that may be non-finite (Fin, XNaN, XInf,   *)
(* XNegInf), so that Math.max and Math.min act as they do in JavaScript.   *)

\* Date.UTC(2025, 5, 1): 1 June 2025, day 20240 since the epoch
START_TIME == 20240 * MinPerDay

\* Date.UTC(2026, 2, 1): 1 March 2026
END_TIME == 20513 * MinPerDay

\* Date.UTC(2025, 9, 29), the "Jump to Perihelion" button
PerihelionTime == 20390 * MinPerDay

\* speed: 3.6e6, in slider steps
InitialSpeed == 3600000 \div MsPerMin

\* the slider's max, 2.16e8, in slider steps
MaxSpeed == 216000000 \div MsPerMin

\* the functions subscribed by useSyncExternalStore in two components
Listeners == {"controls", "readout"}

\* a * b of two whole numbers that may be non-finite
XProd(a, b) ==
    IF a.k = "nan" \/ b.k = "nan" THEN XNaN
    ELSE IF a.k = "fin" /\ b.k = "fin" THEN Fin(a.v * b.v)
    ELSE XInfOfSign(XSign(a) * XSign(b))

\* const state: TimeState = { t: START_TIME, speed: 3.6e6, playing: true }
InitialState ==
    [t |-> Fin(START_TIME), speed |-> Fin(InitialSpeed), playing |-> TRUE]

\* emit(): listeners.forEach((listener) => listener()), as the number of
\* times each listener is called
emit(ls) == [l \in Listeners |-> IF l \in ls THEN 1 ELSE 0]

\* Object.assign(state, partial)
setState(s, partial) ==
    [f \in DOMAIN s |-> IF f \in DOMAIN partial THEN partial[f] ELSE s[f]]

\* setT: Math.min(Math.max(t, START_TIME), END_TIME)
setT(s, x) ==
    setState(s, [t |-> XMin(XMax(x, Fin(START_TIME)), Fin(END_TIME))])

setSpeed(s, v) == setState(s, [speed |-> v])

play(s) == setState(s, [playing |-> TRUE])

pause(s) == setState(s, [playing |-> FALSE])

\* the store as the module is loaded, nothing subscribed
StoreInit ==
    /\ state = InitialState
    /\ listeners = {}
    /\ notified = emit({})
    /\ calls = 0

----------------------------------------------------------------------------
(* useReverseGeocode (src/src/index.tsx).                                  *)
(*                                                                         *)
(* A label is the record [name, of]: a place name resolved for the cache   *)
(* key "of", or one of the fixed texts, with the key NoKey.  cacheRef      *)
(* stands for the Map and the sessionStorage entries behind it, which the  *)
(* hook reads and writes together.                                         *)

\* Math.round(value * 10 ** 3) / 10 ** 3, in thousandths of a degree
roundedCoord(value) == (value + (Scale \div 2000)) \div (Scale \div 1000)

coordsCacheKey(c) == <<roundedCoord(c.lat), roundedCoord(c.lon)>>

NoKey == <<0, 0>>

\* no entry: undefined
NoLabel == [name |-> "", of |-> NoKey]

\* FALLBACK_PLACE_LABEL
FallbackLabel == [name |-> "Charlotte, NC", of |-> NoKey]

CurrentLocation == [name |-> "Current location", of |-> NoKey]

\* what extractPlaceName returns for the response to a request for key
Resolved(key) == [name |-> "place", of |-> key]

\* Number.isFinite(coords.lat) && Number.isFinite(coords.lon)
IsFiniteCoords(c) == c.lat \in Int /\ c.lon \in Int

\* no effect has run yet
NoDeps == <<fallback, "none">>

\* the hook as the component renders for the first time
PlaceInit ==
    /\ placeLabel = FallbackLabel
    /\ placeStatus = "idle"
    /\ cacheRef = [k \in {} |-> NoLabel]
    /\ abortRef = 0
    /\ requests = {}
    /\ effectDeps = NoDeps
    /\ mounted = TRUE
    /\ fetches = 0

Init ==
    /\ now \in {[day |-> d, ms |-> m * MsPerMin] : d \in InitDays, m \in InitMinutes}
    /\ coords = fallback
    /\ status = "pending"
    /\ ticks = 0
    /\ rayArg = Hours(0)
    /\ rayRet = -1
    /\ autArg = NoCall
    /\ StoreInit
    /\ PlaceInit

\* setInterval(() => setNow(new Date()), 1000)
Tick ==
    /\ ticks < MaxTicks
    /\ \E d \in TickMinutes : now' = DatePlusMs(now, d * MsPerMin)
    /\ ticks' = ticks + 1
    /\ UNCHANGED <<coords, status>>
    /\ UNCHANGED callVars

\* useGeolocation: navigator.geolocation is missing
GeoUnavailable ==
    /\ status = "pending"
    /\ status' = "unavailable"
    /\ UNCHANGED <<now, coords, ticks>>
    /\ UNCHANGED callVars

\* useGeolocation: getCurrentPosition success callback
GeoGranted ==
    /\ status = "pending"
    /\ \E p \in Places : coords' = p
    /\ status' = "granted"
    /\ UNCHANGED <<now, ticks>>
    /\ UNCHANGED callVars

\* useGeolocation: getCurrentPosition error callback
GeoDenied ==
    /\ status = "pending"
    /\ status' = "denied"
    /\ UNCHANGED <<now, coords, ticks>>
    /\ UNCHANGED callVars

\* the Recenter button: position callback, or error callback (fallback)
Recenter ==
    /\ status # "unavailable"
    /\ \E p \in Places : coords' = p
    /\ UNCHANGED <<now, status, ticks>>
    /\ UNCHANGED callVars

\* the postal code lookup resolved to finite coordinates
ZipSuccess ==
    /\ \E p \in Places : coords' = p
    /\ UNCHANGED <<now, status, ticks>>
    /\ UNCHANGED callVars

Next ==
    \/ Tick
    \/ GeoUnavailable
    \/ GeoGranted
    \/ GeoDenied
    \/ Recenter
    \/ ZipSuccess

Spec == Init /\ [][Next]_vars

----------------------------------------------------------------------------
(* rayIndexForAUT called on hour values on and around the window bounds.   *)

MaxWrap == 1

\* quarters of eps an argument lies off a mark: -1.5 eps, -0.5 eps, 0,
\* +0.5 eps
RayOffsets == {-6, -2, 0, 2}

\* the marks, in 1/UnitsPerHour hours: every window bound 0, 2, .., 24 and
\* 0.5, 1, 19, 23, 23.9, 23.9999
RayMarks ==
    {2 * b * UnitsPerHour : b \in 0..12}
        \cup {UnitsPerHour \div 2, UnitsPerHour, 19 * UnitsPerHour,
              23 * UnitsPerHour, 478000, 479998}

\* the hour values handed to rayIndexForAUT: the marks, shifted by whole
\* multiples of 24 hours, and the non-finite doubles
RayArgs ==
    {RayNum(c + 24 * UnitsPerHour * k, e) :
        c \in RayMarks, k \in (0 - MaxWrap)..MaxWrap, e \in RayOffsets}
        \cup {NaN, PosInf, NegInf}

RayInit ==
    /\ now = [day |-> 79, ms |-> 0]
    /\ coords = fallback
    /\ status = "pending"
    /\ ticks = 0
    /\ rayArg = Hours(0)
    /\ rayRet = -1
    /\ autArg = NoCall
    /\ StoreInit
    /\ PlaceInit

\* const rayIndex = rayIndexForAUT(autH), on any hour value
RayCall ==
    /\ \E h \in RayArgs :
          /\ rayArg' = h
          /\ rayRet' = rayIndexForAUT(h)
    /\ UNCHANGED <<clockVars, autVars, timeVars, placeVars>>

RayNext == RayCall

RaySpec == RayInit /\ [][RayNext]_vars

----------------------------------------------------------------------------
(* computeAUT called directly, on finite and non-finite coordinates.       *)

\* instants of the calls: the March equinox and the two solstices, every
\* six hours
CallTimes ==
    {[day |-> d, ms |-> m * MsPerMin] : d \in {79, 171, 354, 355},
                                        m \in {0, 360, 720, 1080}}

\* latitudes at which the hour-angle cosine of the solstice day is within
\* 1/Scale of a threshold: -1 on 22 December at 65.033739 S (day length
\* 1440) and on 22 June at 65.001596 N, 1 on 22 December at 66.6999 N
\* (sunset = sunrise)
BoundaryLats == {Fin(0 - 65033739), Fin(65001596), Fin(66699900)}

CallLats == {Fin(35250000), Fin(69650000), XNaN, XInf, XNegInf} \union BoundaryLats

CallLons ==
    {Fin(0 - 80800000), Fin(18950000), Fin(105000000), XNaN, XInf, XNegInf}

CallArgs ==
    {[t |-> t, lat |-> lat, lon |-> lon] :
        t \in CallTimes, lat \in CallLats, lon \in CallLons}

\* what the latest direct call returns
autRet == computeAUTX(autArg.t, autArg.lat, autArg.lon)

CoordInit ==
    /\ now = [day |-> 79, ms |-> 0]
    /\ coords = fallback
    /\ status = "pending"
    /\ ticks = 0
    /\ rayArg = Hours(0)
    /\ rayRet = -1
    /\ autArg = NoCall
    /\ StoreInit
    /\ PlaceInit

\* computeAUT(nowLocal, latDeg, lonDeg), with any arguments
AutCall ==
    /\ autArg' \in CallArgs
    /\ UNCHANGED <<clockVars, rayVars, timeVars, placeVars>>

CoordNext == AutCall

CoordSpec == CoordInit /\ [][CoordNext]_vars

----------------------------------------------------------------------------
(* The comet time store called by the controls, and the render loop of     *)
(* AtlasCometMap (src/src/comet/AtlasCometMap.atlas.tsx).                  *)

MaxCalls == 2

\* values setT is called with: the time slider, the two buttons, and
\* numbers outside the slider's range
SetTArgs ==
    {Fin(START_TIME), Fin(PerihelionTime), Fin(END_TIME), Fin(START_TIME - 1),
     Fin(END_TIME + 1), XInf, XNegInf, XNaN}

\* values setSpeed is called with: slider positions, and a negative speed
SetSpeedArgs == {Fin(InitialSpeed), Fin(MaxSpeed), Fin(0 - InitialSpeed)}

\* milliseconds between two animation frames
DtValues == {50, 100}

\* what the store and the render loop leave alone
besideTime == <<clockVars, rayVars, autVars, placeVars>>

\* what a call from outside the render loop does besides changing state:
\* setState ends in emit()
Called ==
    /\ calls' = calls + 1
    /\ notified' = emit(listeners)
    /\ UNCHANGED listeners
    /\ UNCHANGED besideTime

\* the time slider, "Jump to Perihelion", "Reset to Start", or another caller
SetT ==
    /\ calls < MaxCalls
    /\ \E x \in SetTArgs : state' = setT(state, x)
    /\ Called

\* the speed slider, or another caller
SetSpeed ==
    /\ calls < MaxCalls
    /\ \E v \in SetSpeedArgs : state' = setSpeed(state, v)
    /\ Called

\* the Play button
Play ==
    /\ calls < MaxCalls
    /\ state' = play(state)
    /\ Called

\* the Pause button
Pause ==
    /\ calls < MaxCalls
    /\ state' = pause(state)
    /\ Called

\* subscribe(listener): listeners.add(listener)
Subscribe ==
    /\ \E l \in Listeners \ listeners : listeners' = listeners \union {l}
    /\ UNCHANGED <<state, notified, calls>>
    /\ UNCHANGED besideTime

\* the function subscribe returned: listeners.delete(listener)
Unsubscribe ==
    /\ \E l \in listeners : listeners' = listeners \ {l}
    /\ UNCHANGED <<state, notified, calls>>
    /\ UNCHANGED besideTime

\* the state after render() has run with dt milliseconds since the last
\* frame
render(s, dt) ==
    LET next == XAdd(s.t, XProd(Fin(dt), s.speed))
    IN  IF ~s.playing THEN s
        ELSE IF XGt(next, Fin(END_TIME)) THEN pause(setT(s, Fin(END_TIME)))
        ELSE IF XLt(next, Fin(START_TIME)) THEN pause(setT(s, Fin(START_TIME)))
        ELSE setT(s, next)

\* requestAnimationFrame(render)
Frame ==
    /\ \E dt \in DtValues : state' = render(state, dt)
    /\ notified' = IF state.playing THEN emit(listeners) ELSE notified
    /\ UNCHANGED <<listeners, calls>>
    /\ UNCHANGED besideTime

TimeInit ==
    /\ now = [day |-> 79, ms |-> 0]
    /\ coords = fallback
    /\ status = "pending"
    /\ ticks = 0
    /\ rayArg = Hours(0)
    /\ rayRet = -1
    /\ autArg = NoCall
    /\ StoreInit
    /\ PlaceInit

TimeNext ==
    \/ SetT
    \/ SetSpeed
    \/ Play
    \/ Pause
    \/ Subscribe
    \/ Unsubscribe
    \/ Frame

TimeSpec == TimeInit /\ [][TimeNext]_vars

\* render re-registers itself with requestAnimationFrame at the end of
\* every frame, so frames keep coming
FairTimeSpec == TimeSpec /\ WF_vars(Frame)

----------------------------------------------------------------------------
(* useReverseGeocode run by React: the geolocation callbacks and the postal *)
(* code lookup change coords and status (the actions of the clock          *)
(* component above); React re-renders and, in a later task, runs the       *)
(* effect whose dependencies changed: its cleanup, then lookup().  The     *)
(* callbacks of a fetch run in tasks of their own, so a response may come  *)
(* between a change of coords and the effect that follows it.              *)

MaxFetches == 2

\* cacheRef.current.get(key) ?? readSession(PLACE_CACHE_PREFIX + key)
CacheGet(key) == IF key \in DOMAIN cacheRef THEN cacheRef[key] ELSE NoLabel

\* cacheRef.current.set(key, resolved); writeSession(.., resolved)
CacheSet(key, resolved) ==
    [k \in DOMAIN cacheRef \union {key} |->
        IF k = key THEN resolved ELSE cacheRef[k]]

\* abortRef.current?.abort(), on the fetches reqs
Abort(reqs) ==
    {IF r.id = abortRef THEN [r EXCEPT !.aborted = TRUE] ELSE r : r \in reqs}

\* the response handlers that return at once whatever the signal says
ResponseApplies_NoAbortCheck(r) == TRUE

\* if (controller.signal.aborted) return
ResponseApplies(r) == ~r.aborted

\* lookup(force), the fetches in flight being reqs
lookup(force, reqs) ==
    LET key == coordsCacheKey(coords)
    IN  IF status # "granted"
        THEN /\ requests' = Abort(reqs)
             /\ placeLabel' = FallbackLabel
             /\ placeStatus' = (IF status = "pending" THEN "idle" ELSE "ready")
             /\ UNCHANGED <<cacheRef, abortRef, fetches>>
        ELSE IF ~IsFiniteCoords(coords)
        THEN /\ requests' = reqs
             /\ placeLabel' = CurrentLocation
             /\ placeStatus' = "error"
             /\ UNCHANGED <<cacheRef, abortRef, fetches>>
        ELSE IF ~force /\ CacheGet(key) # NoLabel
        THEN /\ requests' = reqs
             /\ cacheRef' = CacheSet(key, CacheGet(key))
             /\ placeLabel' = CacheGet(key)
             /\ placeStatus' = "ready"
             /\ UNCHANGED <<abortRef, fetches>>
        ELSE /\ fetches < MaxFetches
             /\ fetches' = fetches + 1
             /\ abortRef' = fetches + 1
             /\ requests' = Abort(reqs) \union
                    {[id |-> fetches + 1, key |-> key, aborted |-> FALSE]}
             /\ placeStatus' = "loading"
             /\ UNCHANGED <<placeLabel, cacheRef>>

\* what the hook leaves alone
besidePlace == <<clockVars, rayVars, autVars, timeVars>>

\* the effect has run for the coordinates and the status the page has
EffectSettled == mounted /\ effectDeps = <<coords, status>>

\* React runs the effects of a render before it renders again: coords and
\* status change only when no effect is due
PlaceGeoUnavailable ==
    /\ EffectSettled
    /\ GeoUnavailable

PlaceGeoGranted ==
    /\ EffectSettled
    /\ GeoGranted

PlaceGeoDenied ==
    /\ EffectSettled
    /\ GeoDenied

PlaceRecenter ==
    /\ EffectSettled
    /\ Recenter

PlaceZipSuccess ==
    /\ EffectSettled
    /\ ZipSuccess

\* useEffect(() => { lookup(); return () => abortRef.current?.abort(); },
\* [lookup]): the cleanup of the effect that ran before, then lookup()
RunEffect ==
    /\ mounted
    /\ effectDeps # <<coords, status>>
    /\ lookup(FALSE, IF effectDeps = NoDeps THEN requests ELSE Abort(requests))
    /\ effectDeps' = <<coords, status>>
    /\ UNCHANGED mounted
    /\ UNCHANGED besidePlace

\* the "Try again" button: retry = () => lookup(true)
Retry ==
    /\ mounted
    /\ status = "granted"
    /\ placeStatus = "error"
    /\ lookup(TRUE, requests)
    /\ UNCHANGED <<effectDeps, mounted>>
    /\ UNCHANGED besidePlace

\* .then((data) => ..): the response to the fetch r is in
ResponseOk ==
    /\ \E r \in requests :
          /\ requests' = requests \ {r}
          /\ IF ResponseApplies(r)
             THEN \E resolved \in {Resolved(r.key), CurrentLocation} :
                     /\ cacheRef' = CacheSet(r.key, resolved)
                     /\ placeLabel' = (IF mounted THEN resolved ELSE placeLabel)
                     /\ placeStatus' = (IF mounted THEN "ready" ELSE placeStatus)
             ELSE UNCHANGED <<cacheRef, placeLabel, placeStatus>>
    /\ UNCHANGED <<abortRef, effectDeps, mounted, fetches>>
    /\ UNCHANGED besidePlace

\* .catch(() => ..): the fetch r failed, or was aborted
ResponseFail ==
    /\ \E r \in requests :
          /\ requests' = requests \ {r}
          /\ IF ResponseApplies(r) /\ mounted
             THEN /\ placeLabel' = CurrentLocation
                  /\ placeStatus' = "error"
             ELSE UNCHANGED <<placeLabel, placeStatus>>
    /\ UNCHANGED <<cacheRef, abortRef, effectDeps, mounted, fetches>>
    /\ UNCHANGED besidePlace

\* setCoords({ lat, lon }) with the coordinates it had: the object is a
\* new one, so lookup is a new callback and the effect is due again
Renewed == <<coords, "renewed">>

CoordsRenewed ==
    /\ EffectSettled
    /\ status # "unavailable"
    /\ effectDeps' = Renewed
    /\ UNCHANGED <<placeLabel, placeStatus, cacheRef, abortRef, requests,
                   mounted, fetches>>
    /\ UNCHANGED besidePlace

\* the component is removed
Unmount ==
    /\ EffectSettled
    /\ mounted' = FALSE
    /\ UNCHANGED <<placeLabel, placeStatus, cacheRef, abortRef, requests,
                   effectDeps, fetches>>
    /\ UNCHANGED besidePlace

\* the cleanup of the last effect, run after the component was removed
UnmountCleanup ==
    /\ ~mounted
    /\ effectDeps # NoDeps
    /\ requests' = Abort(requests)
    /\ effectDeps' = NoDeps
    /\ UNCHANGED <<placeLabel, placeStatus, cacheRef, abortRef, mounted, fetches>>
    /\ UNCHANGED besidePlace

PlaceNext ==
    \/ PlaceGeoUnavailable
    \/ PlaceGeoGranted
    \/ PlaceGeoDenied
    \/ PlaceRecenter
    \/ PlaceZipSuccess
    \/ CoordsRenewed
    \/ RunEffect
    \/ Retry
    \/ ResponseOk
    \/ ResponseFail
    \/ Unmount
    \/ UnmountCleanup

PlaceSpec == TimeInit /\ [][PlaceNext]_vars

TypeOK ==
    /\ now.ms \in 0..(MsPerDay - 1)
    /\ coords \in Places
    /\ status \in {"pending", "granted", "denied", "unavailable"}
    /\ ticks \in 0..MaxTicks
    /\ data.mode \in {"normal", "equilux"}

----------------------------------------------------------------------------
(* What the claims speak of.                                               *)

\* the three sun windows computeAUT solves for the displayed instant
Today == sunriseSunsetUTCMinutes(UTCMidnight(now, 0), coords.lat, coords.lon)

Yesterday == sunriseSunsetUTCMinutes(UTCMidnight(now, -1), coords.lat, coords.lon)

Tomorrow == sunriseSunsetUTCMinutes(UTCMidnight(now, 1), coords.lat, coords.lon)

AllNormal ==
    /\ Today.mode = "normal"
    /\ Yesterday.mode = "normal"
    /\ Tomorrow.mode = "normal"

\* the band of the normal flow instant t falls in at the coordinates c
BandAt(t, c) ==
    LET w == sunriseSunsetUTCMinutes(UTCMidnight(t, 0), c.lat, c.lon)
    IN  Band(minutesLocalToUTCMinutes(t), w.sunriseUTC, w.sunsetUTC)

\* the band of the normal flow the displayed instant falls in
NowBand == BandAt(now, coords)

IsDaylightLabel(l) == l \in {"Daylight (Lux)", "Daylight (Lux, Equilux)"}

IsNightLabel(l) == l \in {"Night (Umbra)", "Night (Umbra, Equilux)"}

\* computeAUT at instant t for the coordinates c
AutAt(t, c) == computeAUT(t, c.lat, c.lon)

\* the sun window of UTC calendar day D at the coordinates c
WindowAt(D, c) == sunriseSunsetUTCMinutes([day |-> D, ms |-> 0], c.lat, c.lon)

\* instant t in time units counted from 00:00 UTC of calendar day D
OffsetFrom(D, t) == (t.day - D) * UnitsPerDay + minutesLocalToUTCMinutes(t)

\* t lies in the night that follows day D's sunset: at or after that sunset
\* and before the sunrise of day D + 1
InNightAfter(D, t, c) ==
    /\ WindowAt(D, c).mode = "normal"
    /\ WindowAt(D + 1, c).mode = "normal"
    /\ WindowAt(D, c).sunsetUTC <= OffsetFrom(D, t)
    /\ OffsetFrom(D, t) < UnitsPerDay + WindowAt(D + 1, c).sunriseUTC

SameNight(t1, t2, c) ==
    \E D \in {t1.day - 1, t1.day} : InNightAfter(D, t1, c) /\ InNightAfter(D, t2, c)

\* distance of two AUT hour values around the 24 hour dial
CircDist(a, b) ==
    LET d == (a - b) % (24 * Scale)
    IN  Min2(d, 24 * Scale - d)

\* C1 (as claimed): whenever yesterday's, today's and tomorrow's sun windows
\* are all Normal, the progress computeAUT returns lies in [0,1], in each of
\* the three bands.
C1_ProgressInUnitInterval ==
    AllNormal => (0 <= data.progress /\ data.progress <= Scale)

\* C2 (as claimed): the autHours computeAUT returns (Normal variant in any
\* band, or Equilux variant) satisfies 0 <= autHours < 24.
C2_AutHoursInDay ==
    0 <= data.autHours /\ data.autHours < 24 * Scale

\* C7 (as claimed): the segment label and the AUT half agree: a Daylight
\* label exactly when autHours is in [0,12), a Night label exactly when
\* autHours is in [12,24).
C7_LabelMatchesHalf ==
    /\ IsDaylightLabel(data.segmentLabel)
          <=> (0 <= data.autHours /\ data.autHours < 12 * Scale)
    /\ IsNightLabel(data.segmentLabel)
          <=> (12 * Scale <= data.autHours /\ data.autHours < 24 * Scale)

\* C3 (as claimed): for two instants t1 < t2 at fixed coordinates that lie in
\* the same night (after one sunset and before the following sunrise),
\* autHours at t2 is at least autHours at t1, also when the UTC calendar day
\* changes between them.
C3_NightMonotone ==
    [][(/\ coords' = coords
        /\ now' # now
        /\ data.mode = "normal"
        /\ AutAt(now', coords).mode = "normal"
        /\ SameNight(now, now', coords))
       => AutAt(now', coords).autHours >= data.autHours]_vars

\* the AUT hours that one step of the clock and the day-to-day change of the
\* sunrise and sunset times account for, at the slower of the two segments
ExplainedDelta(t1, t2, c) ==
    LET w1 == WindowAt(t1.day, c)
        w2 == WindowAt(t2.day, c)
        shift == Abs(w2.sunriseUTC - w1.sunriseUTC) + Abs(w2.sunsetUTC - w1.sunsetUTC)
        step == (UnitsPerMin \div MsPerMin) * MsBetween(t1, t2)
    IN  Div(12 * (step + shift), Min2(AutAt(t1, c).segLenMin, AutAt(t2, c).segLenMin))

\* C4 (as claimed): in Normal mode, when the UTC calendar day rolls over
\* (one minute from the last minute of day D to 00:00 of day D + 1), the two
\* autHours values differ, around the dial, by no more than the change of the
\* sunrise/sunset times explains: no discontinuous jump at the day boundary.
C4_RolloverContinuous ==
    [][(/\ coords' = coords
        /\ now'.day = now.day + 1
        /\ MsBetween(now, now') = MsPerMin
        /\ data.mode = "normal"
        /\ AutAt(now', coords).mode = "normal")
       => CircDist(AutAt(now', coords).autHours, data.autHours)
             <= ExplainedDelta(now, now', coords)]_vars

RoundTripTol == Scale \div 1000

\* C6 (as claimed, up to a thousandth of an hour for the cut to whole
\* milliseconds): for a Normal-mode result r, computeAUT at r.sunriseLocal
\* gives autHours 0 (around the dial) and computeAUT at r.sunsetLocal gives
\* autHours 12, for every longitude.
C6_RoundTrip ==
    data.mode = "normal" =>
        /\ CircDist(AutAt(data.sunriseLocal, coords).autHours, 0) <= RoundTripTol
        /\ Abs(AutAt(data.sunsetLocal, coords).autHours - 12 * Scale) <= RoundTripTol

\* C8: whenever today's sun window is PolarDay or PolarNight, computeAUT
\* returns the Equilux variant with dayLenMin = nightLenMin = segLenMin = 720
\* minutes, whatever yesterday's and tomorrow's windows are.
C8_PolarTodayEquilux ==
    LET d == data
    IN  Today.mode \in {"polar_day", "polar_night"} =>
            /\ d.mode = "equilux"
            /\ d.dayLenMin = Minutes(720)
            /\ d.nightLenMin = Minutes(720)
            /\ d.segLenMin = Minutes(720)

\* C8 witness: today is polar while yesterday was still an ordinary day, and
\* the result shown is the Equilux variant.
C8_Witness ==
    /\ Today.mode = "polar_day"
    /\ Yesterday.mode = "normal"
    /\ data.mode = "equilux"
    /\ data.nightLenMin = Minutes(720)

\* C9 (as claimed): at latitude 66.6 degrees the solver returns PolarDay on
\* the June-solstice day (21 June, day 172) and PolarNight on the
\* December-solstice day (21 December, day 355).
C9_PolarAt66_6 ==
    coords.lat = 66600000 =>
        /\ dayOfYear(now) = 172 => Today.mode = "polar_day"
        /\ dayOfYear(now) = 355 => Today.mode = "polar_night"

\* C9 (amended): at latitude 66.6 degrees the solver returns PolarDay on the
\* June-solstice day (x < -1) and Normal on the December-solstice day: with
\* the 0.833 degree horizon correction x stays within [-1, 1] there.
C9_PolarDayOnlyAt66_6 ==
    coords.lat = 66600000 =>
        /\ dayOfYear(now) = 172 =>
              /\ Today.mode = "polar_day"
              /\ HourAngleCos(Today.declDeg, coords.lat) < 0 - Scale
        /\ dayOfYear(now) = 355 =>
              /\ Today.mode = "normal"
              /\ HourAngleCos(Today.declDeg, coords.lat) <= Scale
              /\ HourAngleCos(Today.declDeg, coords.lat) >= 0 - Scale

\* C9 witness: the clock shows the December-solstice day at latitude 66.6
\* and the solver has found an ordinary sunrise and sunset.
C9_Witness ==
    /\ coords.lat = 66600000
    /\ dayOfYear(now) = 355
    /\ Today.mode = "normal"
    /\ Today.sunsetUTC > Today.sunriseUTC

\* C10: computeAUT returns the Normal variant exactly when the sun windows
\* of yesterday, today and tomorrow are all Normal; otherwise it returns the
\* Equilux variant computed from today's EoT and today's noonUTC.
C10_NormalIffAllNormal ==
    LET d == data
        t == Today
        allNormal == AllNormal
    IN  /\ d.mode = "normal" <=> allNormal
        /\ ~allNormal =>
              d = computeAUTEquilux(now, coords.lon, t.EoT, t.noonUTC)

\* C10 witness: today is an ordinary day, tomorrow is polar, and the result
\* shown is the Equilux variant.
C10_Witness ==
    /\ Today.mode = "normal"
    /\ Tomorrow.mode # "normal"
    /\ data.mode = "equilux"

----------------------------------------------------------------------------
\* C11: whatever the instant and the position, computeAUT's segmentLabel is
\* one of the four literals and never the empty string; the two labels with
\* the Equilux qualifier are given exactly by the Equilux variant.
C11_OneOfFourLabels ==
    LET d == data
    IN  /\ d.segmentLabel \in {"Daylight (Lux)", "Night (Umbra)",
                               "Daylight (Lux, Equilux)", "Night (Umbra, Equilux)"}
        /\ d.segmentLabel # ""
        /\ d.segmentLabel \in {"Daylight (Lux, Equilux)", "Night (Umbra, Equilux)"}
              <=> d.mode = "equilux"

\* C11 witness: an instant before today's sunrise in the normal flow, the
\* branch that assigns its label last.
C11_Witness ==
    /\ data.mode = "normal"
    /\ NowBand = "preSunrise"
    /\ data.segmentLabel = "Night (Umbra)"

----------------------------------------------------------------------------
(* Ray windows: what the claims speak of.                                  *)

\* rayIndexForAUT has been called
RayCalled == rayRet # -1

\* a finite hour value in [0, 24)
InDialRange(h) == h.k = "fin" /\ RayGe(h, Hours(0)) /\ RayLt(h, Hours(24))

\* h lies in the catalog window r, bounds taken as written: [start, end)
InWindow(h, r) == RayGe(h, Hours(r.start)) /\ RayLt(h, Hours(r.end))

\* h lies below the hour b by less than eps
JustBelow(h, b) == RayLt(RaySub(Hours(b), eps), h) /\ RayLt(h, Hours(b))

\* the window bounds 2, 4, .., 2 * n
BoundsUpTo(n) == {2 * i : i \in 1..n}

\* the catalog window the latest call returned
RetWindow == RAY_WINDOWS[rayRet + 1]

\* C12 (as claimed): for every h in [0,24) exactly one catalog window
\* [start,end) contains h and rayIndexForAUT(h) is its index.
C12_ReturnsContainingWindow ==
    (RayCalled /\ InDialRange(rayArg))
        => /\ Cardinality({i \in 1..Len(RAY_WINDOWS) :
                              InWindow(rayArg, RAY_WINDOWS[i])}) = 1
           /\ InWindow(rayArg, RetWindow)

\* C12 (amended): for every h in [0,24) exactly one catalog window contains
\* h; rayIndexForAUT(h) is its index unless h lies less than eps below a
\* bound b in {2,..,24}, where it is the index of the window starting at b
\* (window 0 for b = 24).
C12_ContainingOrNextWindow ==
    (RayCalled /\ InDialRange(rayArg))
        => /\ Cardinality({i \in 1..Len(RAY_WINDOWS) :
                              InWindow(rayArg, RAY_WINDOWS[i])}) = 1
           /\ \A b \in BoundsUpTo(12) :
                 JustBelow(rayArg, b) => RetWindow.start = b % 24
           /\ (\A b \in BoundsUpTo(12) : ~JustBelow(rayArg, b))
                 => InWindow(rayArg, RetWindow)

\* C12 witness: half an eps below 2 the call returned Orange, the window
\* [2,4).
C12_Witness ==
    /\ rayArg = RayNum(2 * UnitsPerHour, -2)
    /\ rayRet = 1

C14_FallbackUnreached ==
    (RayCalled /\ rayArg.k = "fin") => RayScan(RayWrapped(rayArg), 0) # -1

C16_ProgressIsFraction ==
    (RayCalled /\ InDialRange(rayArg))
        => /\ RayGe(rayProgress(rayArg), Hours(0))
           /\ RayGe(Hours(1), rayProgress(rayArg))
           /\ rayArg = Hours(RetWindow.start) => rayProgress(rayArg) = Hours(0)
           /\ rayProgress(rayArg) = RayDiv(RaySub(rayArg, Hours(RetWindow.start)), 2)

\* C16 (amended): for h in [0,24) the progress is in [0,1] and is 0 at the
\* window start; it equals (h - start) / 2 unless h lies less than eps below
\* a bound b, where the clamp makes it 0 (b in {2,..,22}) or 1 (b = 24).
C16_ProgressClampedBelowBounds ==
    (RayCalled /\ InDialRange(rayArg))
        => /\ RayGe(rayProgress(rayArg), Hours(0))
           /\ RayGe(Hours(1), rayProgress(rayArg))
           /\ rayArg = Hours(RetWindow.start) => rayProgress(rayArg) = Hours(0)
           /\ \A b \in BoundsUpTo(11) :
                 JustBelow(rayArg, b) => rayProgress(rayArg) = Hours(0)
           /\ JustBelow(rayArg, 24) => rayProgress(rayArg) = Hours(1)
           /\ (\A b \in BoundsUpTo(12) : ~JustBelow(rayArg, b))
                 => rayProgress(rayArg) =
                        RayDiv(RaySub(rayArg, Hours(RetWindow.start)), 2)

\* C16 witness: half an eps below 24 the active window is Red and its
\* progress is 1.
C16_Witness ==
    /\ rayArg = RayNum(24 * UnitsPerHour, -2)
    /\ rayRet = 0
    /\ rayProgress(rayArg) = Hours(1)

\* C17: the catalog every call scans has 12 windows of 2 hours each, the
\* first starting at 0, each ending where the next starts, the last ending
\* at 24.
C17_CatalogContiguous ==
    RayCalled
        => /\ Len(RAY_WINDOWS) = 12
           /\ \A i \in 1..Len(RAY_WINDOWS) :
                 RAY_WINDOWS[i].end - RAY_WINDOWS[i].start = 2
           /\ RAY_WINDOWS[1].start = 0
           /\ \A i \in 1..(Len(RAY_WINDOWS) - 1) :
                 RAY_WINDOWS[i].end = RAY_WINDOWS[i + 1].start
           /\ RAY_WINDOWS[Len(RAY_WINDOWS)].end = 24

\* C17 witness: the call on 23 returned the twelfth window, which ends the
\* catalog at 24.
C17_Witness ==
    /\ rayArg = Hours(23)
    /\ rayRet = 11
    /\ RetWindow.end = 24

----------------------------------------------------------------------------
(* The sun window solver.                                                  *)

\* the hour-angle cosine the solver computes for today's window
TodayX ==
    HourAngleCos(solarParamsNOAA(dayOfYear(UTCMidnight(now, 0))).declDeg,
                 coords.lat)

\* hour-angle cosines on and next to the two thresholds
XSamples ==
    {0 - Scale - 1, 0 - Scale, 1 - Scale, 0, Scale - 1, Scale, Scale + 1}

\* C18: the solver classifies on the unclamped x: PolarNight above 1,
\* PolarDay below -1, Normal on all of [-1,1] with noonUTC = 720 - 4 lon -
\* EoT, sunriseUTC = noonUTC - 4 h0 and sunsetUTC = noonUTC + 4 h0 for
\* h0 = acos(x) in degrees, so sunriseUTC <= noonUTC <= sunsetUTC with noon
\* midway.
C18_ClassifiesOnUnclampedX ==
    LET t == Today
        tx == TodayX
    IN  /\ t = SunWindow(tx, t.noonUTC, t.EoT, t.declDeg)
        /\ t.noonUTC = Minutes(720) - ToUnits(4 * coords.lon) - t.EoT
        /\ \A x \in XSamples \cup {tx} :
              LET w == SunWindow(x, t.noonUTC, t.EoT, t.declDeg)
                  h0 == RAD(Acos(x))
              IN  /\ x > Scale => w.mode = "polar_night"
                  /\ x < 0 - Scale => w.mode = "polar_day"
                  /\ (x >= 0 - Scale /\ x <= Scale)
                        => /\ w.mode = "normal"
                           /\ h0 >= 0
                           /\ w.sunriseUTC = w.noonUTC - ToUnits(4 * h0)
                           /\ w.sunsetUTC = w.noonUTC + ToUnits(4 * h0)
                           /\ w.sunriseUTC <= w.noonUTC
                           /\ w.noonUTC <= w.sunsetUTC
                           /\ w.noonUTC - w.sunriseUTC = w.sunsetUTC - w.noonUTC

\* C18 witness: today the hour-angle cosine is above 1 and the solver
\* reports a polar night.
C18_Witness ==
    /\ TodayX > Scale
    /\ Today.mode = "polar_night"

----------------------------------------------------------------------------
(* Non-finite coordinates.                                                 *)

\* a direct call was made
AutCalled == autArg # NoCall

\* C19: when latitude or longitude is non-finite, what computeAUT returns
\* has NaN for autHours and for progress: no default coordinate and no
\* default result takes the place of the NaN.
C19_NaNPropagates ==
    LET d == autRet
    IN  (AutCalled /\ (autArg.lat.k # "fin" \/ autArg.lon.k # "fin"))
            => /\ d.autHours.k = "nan"
               /\ d.progress.k = "nan"
               /\ d.autClock = formatClockX(XNaN)

\* C19 witness: a call with a finite latitude and an infinite longitude
\* returns NaN hours.
C19_Witness ==
    /\ AutCalled
    /\ autArg.lat.k = "fin"
    /\ autArg.lon.k = "inf"
    /\ autRet.autHours.k = "nan"

----------------------------------------------------------------------------
(* The bands of the normal flow.                                           *)

\* the absolute instant t lies in [sunrise, sunset) of the Normal window of
\* UTC calendar day D at the coordinates c
SunIsUp(D, t, c) ==
    LET w == WindowAt(D, c)
    IN  /\ w.mode = "normal"
        /\ w.sunriseUTC <= OffsetFrom(D, t)
        /\ OffsetFrom(D, t) < w.sunsetUTC

\* C21 (as claimed): in Normal mode the label is Daylight exactly when the
\* displayed instant lies in [sunrise, sunset) of the window of some UTC
\* day (yesterday's, today's or tomorrow's), and Night otherwise.
C21_DaylightIffSunIsUp ==
    LET d == data
    IN  d.mode = "normal"
            => /\ IsDaylightLabel(d.segmentLabel)
                    <=> \E D \in {now.day - 1, now.day, now.day + 1} :
                            SunIsUp(D, now, coords)
               /\ IsNightLabel(d.segmentLabel) <=> ~IsDaylightLabel(d.segmentLabel)

\* the displayed instant in minutes since today's 00:00 UTC
NowUTC == minutesLocalToUTCMinutes(now)

C23_ReportedBoundaries ==
    LET d == data
        today == Today
        todayUTC == UTCMidnight(now, 0)
        yesterdayUTC == UTCMidnight(now, -1)
        tomorrowUTC == UTCMidnight(now, 1)
        before == NowUTC < today.sunriseUTC
    IN  d.mode = "normal"
            => /\ d.sunriseLocal = utcMinutesToLocalDate(today.sunriseUTC, todayUTC)
               /\ before
                    => /\ d.sunsetLocal =
                              utcMinutesToLocalDate(Yesterday.sunsetUTC, yesterdayUTC)
                       /\ d.nextSunriseLocal =
                              utcMinutesToLocalDate(today.sunriseUTC, todayUTC)
               /\ ~before
                    => /\ d.sunsetLocal =
                              utcMinutesToLocalDate(today.sunsetUTC, todayUTC)
                       /\ d.nextSunriseLocal =
                              utcMinutesToLocalDate(Tomorrow.sunriseUTC, tomorrowUTC)
               /\ MsBetween(d.sunsetLocal, d.nextSunriseLocal) >= 0

\* C23 witness: before today's sunrise in Normal mode the reported sunset is
\* yesterday's, not today's, and lies before the displayed instant.
C23_Witness ==
    /\ data.mode = "normal"
    /\ NowUTC < Today.sunriseUTC
    /\ data.sunsetLocal # utcMinutesToLocalDate(Today.sunsetUTC, UTCMidnight(now, 0))
    /\ MsBetween(data.sunsetLocal, now) > 0
    /\ data.nextSunriseLocal = data.sunriseLocal

\* C24: in Normal mode dayLenMin is max(0, today's sunset - today's sunrise)
\* and nightLenMin is max(0, tomorrow's sunrise + 1440 - today's sunset) in
\* every band, so neither depends on the instant within the UTC day; both
\* are non-negative.
C24_DayNightLengths ==
    LET d == data
        today == Today
        dayLen == today.sunsetUTC - today.sunriseUTC
        nightLen == (Tomorrow.sunriseUTC + Minutes(1440)) - today.sunsetUTC
    IN  d.mode = "normal"
            => /\ d.dayLenMin = (IF dayLen > 0 THEN dayLen ELSE 0)
               /\ d.nightLenMin = (IF nightLen > 0 THEN nightLen ELSE 0)
               /\ d.dayLenMin >= 0
               /\ d.nightLenMin >= 0

\* a pre-sunrise state whose reported night length is not the length of the
\* night in progress
C24_Witness ==
    /\ data.mode = "normal"
    /\ NowUTC < Today.sunriseUTC
    /\ data.nightLenMin > 0
    /\ data.nightLenMin # data.segLenMin

\* apparent solar time of the displayed instant with today's equation of
\* time, in time units from apparent-solar midnight
NowAST == (NowUTC + ToUnits(4 * coords.lon) + Today.EoT) % UnitsPerDay

\* the displayed instant one hour later
HourLater == DatePlusMs(now, 60 * MsPerMin)

\* C25: the Equilux mapper is a linear two-half map of apparent solar time
\* astMin in [0,1440): from 06:00 to 18:00 the label is Daylight Equilux and
\* autHours = 12 (astMin - 360) / 720 in [0,12); otherwise the label is
\* Night Equilux and autHours = 12 + 12 delta / 720 in [12,24) with delta the
\* time since apparent-solar 18:00; progress is in [0,1); and one hour later
\* in the same UTC day autHours is one hour more (to the resolution of the
\* ratio, 12 units), less 24 when apparent-solar 06:00 was crossed.
C25_EquiluxLinearHalves ==
    LET d == data
        astMin == NowAST
        delta == (astMin - Minutes(1080)) % UnitsPerDay
        later == AutAt(HourLater, coords)
        wraps == astMin < Minutes(360) /\ astMin + Minutes(60) >= Minutes(360)
        step == later.autHours - d.autHours + (IF wraps THEN 24 * Scale ELSE 0)
    IN  d.mode = "equilux"
            => /\ 0 <= astMin /\ astMin < Minutes(1440)
               /\ (Minutes(360) <= astMin /\ astMin < Minutes(1080))
                    => /\ d.segmentLabel = "Daylight (Lux, Equilux)"
                       /\ d.autHours = 12 * Div(astMin - Minutes(360), Minutes(720))
                       /\ d.progress = Div(astMin - Minutes(360), Minutes(720))
                       /\ 0 <= d.autHours /\ d.autHours < 12 * Scale
               /\ ~(Minutes(360) <= astMin /\ astMin < Minutes(1080))
                    => /\ d.segmentLabel = "Night (Umbra, Equilux)"
                       /\ delta < Minutes(720)
                       /\ d.autHours = 12 * Scale + 12 * Div(delta, Minutes(720))
                       /\ d.progress = Div(delta, Minutes(720))
                       /\ 12 * Scale <= d.autHours /\ d.autHours < 24 * Scale
               /\ 0 <= d.progress /\ d.progress < Scale
               /\ HourLater.day = now.day
                    => /\ later.mode = "equilux"
                       /\ Abs(step - Scale) <= 12

\* an Equilux night state less than an hour before apparent-solar 06:00,
\* reached by apparent solar time wrapping past 24:00: one hour later the
\* dial has wrapped to the daylight half
C25_Witness ==
    /\ data.mode = "equilux"
    /\ NowAST < Minutes(360)
    /\ NowAST + Minutes(60) >= Minutes(360)
    /\ data.autHours > 23 * Scale
    /\ HourLater.day = now.day
    /\ AutAt(HourLater, coords).segmentLabel = "Daylight (Lux, Equilux)"

\* apparent solar time, with today's equation of time, of the Date t, to
\* the millisecond t is held in; in time units from apparent-solar midnight
ASTOf(t) ==
    (OffsetFrom(now.day, t) + ToUnits(4 * coords.lon) + Today.EoT) % UnitsPerDay

\* time units in a millisecond
UnitsPerMs == UnitsPerMin \div MsPerMin

\* C26: in the Equilux variant sunriseLocal is today's UTC midnight plus
\* noonUTC - 360 minutes, sunsetLocal today's UTC midnight plus noonUTC + 360
\* minutes and nextSunriseLocal tomorrow's UTC midnight plus noonUTC - 360
\* minutes, with today's noonUTC (each cut to the millisecond of a Date);
\* sunset - sunrise = nextSunrise - sunset = 720 minutes exactly; and the
\* boundaries are, within the millisecond, apparent-solar 06:00 and 18:00.
C26_VirtualBoundaries ==
    LET d == data
        noonUTC == Today.noonUTC
        todayUTC == UTCMidnight(now, 0)
        tomorrowUTC == UTCMidnight(now, 1)
        msOf(u) == u \div UnitsPerMs
        at6(t) == LET a == ASTOf(t) IN Minutes(360) - UnitsPerMs < a /\ a <= Minutes(360)
        at18(t) == LET a == ASTOf(t) IN Minutes(1080) - UnitsPerMs < a /\ a <= Minutes(1080)
    IN  d.mode = "equilux"
            => /\ MsBetween(todayUTC, d.sunriseLocal) = msOf(noonUTC - Minutes(360))
               /\ MsBetween(todayUTC, d.sunsetLocal) = msOf(noonUTC + Minutes(360))
               /\ MsBetween(tomorrowUTC, d.nextSunriseLocal) = msOf(noonUTC - Minutes(360))
               /\ MsBetween(d.sunriseLocal, d.sunsetLocal) = 720 * MsPerMin
               /\ MsBetween(d.sunsetLocal, d.nextSunriseLocal) = 720 * MsPerMin
               /\ at6(d.sunriseLocal)
               /\ at18(d.sunsetLocal)
               /\ at6(d.nextSunriseLocal)

\* an Equilux state shown between its virtual sunrise and virtual sunset,
\* in the daylight half, whose noonUTC is not a whole number of milliseconds
C26_Witness ==
    /\ data.mode = "equilux"
    /\ MsBetween(data.sunriseLocal, now) > 0
    /\ MsBetween(now, data.sunsetLocal) > 0
    /\ data.segmentLabel = "Daylight (Lux, Equilux)"
    /\ Today.noonUTC % UnitsPerMs # 0

----------------------------------------------------------------------------
(* Segment lengths.                                                        *)

\* the sun window of the day k days from the call's, at the call's
\* coordinates
CallWindow(k) ==
    sunriseSunsetUTCMinutes(UTCMidnight(autArg.t, k), autArg.lat.v, autArg.lon.v)

\* the call has valid coordinates and takes the normal flow
CallIsNormal ==
    /\ AutCalled
    /\ autArg.lat.k = "fin" /\ Abs(autArg.lat.v) <= 90 * Scale
    /\ autArg.lon.k = "fin" /\ Abs(autArg.lon.v) <= 180 * Scale
    /\ CallWindow(0).mode = "normal"
    /\ CallWindow(-1).mode = "normal"
    /\ CallWindow(1).mode = "normal"

\* the band the call takes
CallBand ==
    Band(minutesLocalToUTCMinutes(autArg.t), CallWindow(0).sunriseUTC,
         CallWindow(0).sunsetUTC)

\* segLenMin of the call
CallSegLen ==
    SegLenMin(CallBand, CallWindow(0).sunriseUTC, CallWindow(0).sunsetUTC,
              CallWindow(-1).sunsetUTC, CallWindow(1).sunriseUTC)

\* C27: for valid coordinates the active segment length of every
\* Normal-mode result is strictly positive (and finite), whichever band is
\* taken, also when a window is at the polar boundary (sunset = sunrise, or
\* day length 1440) and for both night lengths.
C27_SegLenPositive ==
    CallIsNormal
        => /\ CallSegLen > 0
           /\ CallSegLen < Minutes(2 * 1440)
           /\ SegLenMin("postSunset", CallWindow(0).sunriseUTC,
                        CallWindow(0).sunsetUTC, CallWindow(-1).sunsetUTC,
                        CallWindow(1).sunriseUTC) > 0
           /\ SegLenMin("preSunrise", CallWindow(0).sunriseUTC,
                        CallWindow(0).sunsetUTC, CallWindow(-1).sunsetUTC,
                        CallWindow(1).sunriseUTC) > 0

\* a call on a day whose hour-angle cosine is -1 (day length 1440 minutes,
\* to the resolution of acos), before that day's sunrise: the night in
\* progress is a few minutes long
C27_Witness ==
    /\ CallIsNormal
    /\ HourAngleCos(CallWindow(0).declDeg, autArg.lat.v) = 0 - Scale
    /\ CallWindow(0).sunsetUTC - CallWindow(0).sunriseUTC > Minutes(1439)
    /\ CallBand = "preSunrise"
    /\ CallSegLen > 0
    /\ CallSegLen < Minutes(10)

----------------------------------------------------------------------------
(* The comet time store.                                                   *)

locationPrimary ==
    IF status = "pending" THEN "Requesting location"
    ELSE IF status = "granted"
    THEN (IF placeStatus = "loading" THEN "Locating your place"
          ELSE placeLabel.name)
    ELSE FallbackLabel.name

\* the fetch r belongs to a lookup that is no longer the current one
Superseded(r) ==
    \/ r.aborted
    \/ r.id # abortRef
    \/ r.key # coordsCacheKey(coords)
    \/ status # "granted"
    \/ ~mounted

\* a response to the fetch r is handled in this step
Responds(r) == r \in requests /\ requests' = requests \ {r}

\* C30 as stated: the response to a fetch of a superseded lookup never
\* changes placeLabel, placeStatus or the place cache.
C30_StaleNeverApplies ==
    [][\A r \in requests :
          (Superseded(r) /\ Responds(r)) =>
              UNCHANGED <<placeLabel, placeStatus, cacheRef>>]_vars

\* the labels the hook may give for the current coordinates
CurrentLabels ==
    {FallbackLabel, CurrentLocation, Resolved(coordsCacheKey(coords))}

\* C30, amended: the response to an aborted fetch never changes placeLabel,
\* placeStatus or the place cache; at most the latest fetch is not aborted,
\* every cache entry was resolved for its own key, and once the effect has
\* run for the current coordinates and status the fetch that is not aborted
\* is for the current coordinates and the text shown is "Locating your
\* place", "Requesting location", the fallback label, "Current location"
\* or the label resolved for the current coordinates.
C30_AbortedNeverApplies ==
    /\ [][\A r \in requests :
            (r.aborted /\ Responds(r)) =>
                UNCHANGED <<placeLabel, placeStatus, cacheRef>>]_vars
    /\ [](/\ \A r \in requests : ~r.aborted => r.id = abortRef
          /\ \A k \in DOMAIN cacheRef :
                cacheRef[k] \in {Resolved(k), CurrentLocation}
          /\ EffectSettled =>
                /\ \A r \in requests :
                      ~r.aborted =>
                          /\ r.key = coordsCacheKey(coords)
                          /\ status = "granted"
                /\ placeStatus # "loading" => placeLabel \in CurrentLabels
                /\ locationPrimary \in
                      {"Requesting location", "Locating your place"} \union
                      {l.name : l \in CurrentLabels})

\* the fetch for the coordinates the page had before is aborted and still
\* in flight, and the label resolved for the current coordinates is shown
C30_Witness ==
    /\ EffectSettled
    /\ status = "granted"
    /\ placeStatus = "ready"
    /\ placeLabel = Resolved(coordsCacheKey(coords))
    /\ \E r \in requests : r.aborted /\ r.key # coordsCacheKey(coords)

====
